---- MODULE Spec2Model ----
(***************************************************************************)
(* Model of the Bookstore-API request handlers:                            *)
(*   src/src/routes/closed/closed_message.ts  (libraryRouter, "closed")    *)
(*   src/src/routes/open/message.ts           (messageRouter, "open")      *)
(*                                                                         *)
(* JavaScript strings are tuples of one-character strings; literal pieces  *)
(* of a template are kept as single multi-character elements.  A request   *)
(* is handled in steps: the synchronous middleware chain up to the first   *)
(* response or the first pool.query call is one step (JavaScript runs it   *)
(* to completion), and every awaited database statement together with the  *)
(* continuation that consumes its result is one further step.              *)
(***************************************************************************)
EXTENDS Integers, Sequences, FiniteSets, TLC

\* ------------------------------------------------------------------ bounds

\* The SERIAL column DemoID stops handing out keys after MaxId.
MaxId == 3

\* ----------------------------------------------------- JavaScript values

\* The JavaScript value undefined (an absent query/body field).
Undefined == <<"#undefined">>

\* A JavaScript number: NaN or an integer.
NaN == [nan |-> TRUE, val |-> 0]
Num(k) == [nan |-> FALSE, val |-> k]

Digits == {"0", "1", "2", "3", "4", "5", "6", "7", "8", "9"}

DigitVal(c) ==
    CASE c = "0" -> 0 [] c = "1" -> 1 [] c = "2" -> 2 [] c = "3" -> 3
      [] c = "4" -> 4 [] c = "5" -> 5 [] c = "6" -> 6 [] c = "7" -> 7
      [] c = "8" -> 8 [] c = "9" -> 9

DigitChar(d) ==
    CASE d = 0 -> "0" [] d = 1 -> "1" [] d = 2 -> "2" [] d = 3 -> "3"
      [] d = 4 -> "4" [] d = 5 -> "5" [] d = 6 -> "6" [] d = 7 -> "7"
      [] d = 8 -> "8" [] d = 9 -> "9"

AllDigits(s) == \A i \in 1..Len(s) : s[i] \in Digits

\* Value of a tuple of digits, most significant first.
RECURSIVE DigitsVal(_)
DigitsVal(s) ==
    IF Len(s) = 0 THEN 0
    ELSE 10 * DigitsVal(SubSeq(s, 1, Len(s) - 1)) + DigitVal(s[Len(s)])

\* Length of the longest prefix of s made of digits.
RECURSIVE DigitPrefixLen(_)
DigitPrefixLen(s) ==
    IF Len(s) = 0 \/ s[1] \notin Digits THEN 0
    ELSE 1 + DigitPrefixLen(Tail(s))

\* String(n) for an integer n.
RECURSIVE NatToString(_)
NatToString(n) ==
    IF n < 10 THEN <<DigitChar(n)>>
    ELSE NatToString(n \div 10) \o <<DigitChar(n % 10)>>

NumToString(n) == IF n < 0 THEN <<"-">> \o NatToString(-n) ELSE NatToString(n)

Unsigned(s) == IF Len(s) > 0 /\ s[1] = "-" THEN Tail(s) ELSE s

\* An optionally signed run of digits.
IsIntLiteral(s) == Len(Unsigned(s)) > 0 /\ AllDigits(Unsigned(s))

\* An optionally signed decimal literal: digits, digits "." digits*, or
\* "." digits.  (The part of the StringNumericLiteral grammar the inputs use.)
IsDecimalLiteral(s) ==
    LET u == Unsigned(s)
        k == DigitPrefixLen(u)
    IN  \/ (k > 0 /\ k = Len(u))
        \/ (k < Len(u) /\ u[k + 1] = "." /\ AllDigits(SubSeq(u, k + 2, Len(u)))
              /\ (k > 0 \/ Len(u) > k + 1))

\* The global parseInt(string): the leading optionally signed run of digits,
\* NaN when there is none.
parseInt(s) ==
    LET u == Unsigned(s)
        k == DigitPrefixLen(u)
        v == DigitsVal(SubSeq(u, 1, k))
    IN  IF s = Undefined \/ k = 0 THEN NaN
        ELSE Num(IF u = s THEN v ELSE -v)

\* Unary plus on a query string.  Exact on integer literals and on strings
\* that are no number; the inputs of limit, offset and cursor are of these
\* two kinds.
ToNumber(s) ==
    IF s = Undefined THEN NaN
    ELSE IF Len(s) = 0 THEN Num(0)
    ELSE IF IsIntLiteral(s)
         THEN Num(IF Unsigned(s) = s THEN DigitsVal(s) ELSE -DigitsVal(Unsigned(s)))
    ELSE NaN

JSGt(a, k) == ~a.nan /\ a.val > k
JSGe(a, k) == ~a.nan /\ a.val >= k
JSLe(a, k) == ~a.nan /\ a.val <= k

\* validationFunctions of core/utilities.
isStringProvided(c) == c # Undefined /\ Len(c) > 0

isNumberProvided(c) == c # Undefined /\ Len(c) > 0 /\ IsDecimalLiteral(c)

\* The integer columns of Demo and BOOKS; the driver returns them as numbers.
IntegerColumns == {"demoid", "priority", "publication_year"}

\* `${value}` inside a template literal, for a column of a result row.
Template(row, col) ==
    IF col \notin DOMAIN row THEN <<"undefined">>
    ELSE IF col \in IntegerColumns THEN NumToString(row[col])
    ELSE row[col]

\* ------------------------------------------------------------- input sets

Names == {<<"a">>, <<"b">>}
Messages == {<<"h", "i">>, <<"y", "o">>}

NameInputs == Names \cup {Undefined, <<>>}
MessageInputs == Messages \cup {Undefined}
PriorityInputs ==
    {Undefined, <<"x">>, <<"0">>, <<"1">>, <<"2">>, <<"4">>,
     <<"2", ".", "5">>, <<"3", ".", "5">>}
LimitInputs == {Undefined, <<"x">>, <<"0">>, <<"1">>, <<"2">>}
OffsetInputs == {Undefined, <<"-", "1">>, <<"0">>, <<"1">>, <<"2">>}
CursorInputs == {Undefined, <<"-", "1">>, <<"0">>, <<"1">>, <<"2">>, <<"3">>}

Isbn1 == <<"9", "7", "8", "0", "0", "0", "0", "0", "0", "0", "0", "0", "1">>
Isbn2 == <<"9", "7", "8", "0", "0", "0", "0", "0", "0", "0", "0", "0", "2">>
IsbnAbsent == <<"9", "7", "8", "0", "0", "0", "0", "0", "0", "0", "0", "0", "3">>

Book1 ==
    [isbn13 |-> Isbn1, authors |-> <<"A", "n", "n">>, publication_year |-> 2008,
     title |-> <<"O", "n", "e">>, rating_avg |-> <<"4", ".", "5">>]
Book2 ==
    [isbn13 |-> Isbn2, authors |-> <<"B", "o", "b">>, publication_year |-> 1999,
     title |-> <<"T", "w", "o">>, rating_avg |-> <<"3">>]
BookCatalog == {Book1, Book2}

IsbnInputs ==
    {Isbn1, IsbnAbsent, SubSeq(Isbn1, 1, 12), Isbn1 \o <<"0">>,
     <<"x">> \o SubSeq(Isbn1, 1, 12)}
TitleInputs == {<<"O", "n", "e">>, <<"N", "o">>, <<"1", "2">>}
AuthorsInputs == {Undefined, <<>>, <<"n">>, <<"z">>}
YearInputs == {Undefined, <<"2", "0", "0", "8">>, <<"9", "9">>, <<"x">>}
RatingInputs == {Undefined, <<"4", ".", "5", "0">>, <<"x">>}
RootPriorityInputs == {Undefined, <<"1">>, <<"9">>}

\* --------------------------------------------------------------- the state

VARIABLES
    demo,    \* table Demo: a set of rows [demoid, name, message, priority]
    nextId,  \* next value of the sequence behind the SERIAL column DemoID
    books,   \* table BOOKS: a set of rows
    req,     \* per client: the request being handled and its response
    pager    \* a client paging through GET /cursor: its limit, the cursor it
             \* sends next, and the surrogate keys of the rows it has received

vars == <<demo, nextId, books, req, pager>>

NoResponse == [status |-> 0]
Idle ==
    [route |-> "none", q |-> [none |-> Undefined], pc |-> "idle",
     ran |-> <<>>, sql |-> 0, fault |-> FALSE, rows |-> <<>>, resp |-> NoResponse,
     sent |-> 0]

\* No client is paging.
NoPager == [limit |-> Undefined, cursor |-> Undefined, seen |-> <<>>]

\* A client can send a request when it has none in flight.
Free(r) == req[r].pc = "idle"

\* ------------------------------------------------------ the database (SQL)

\* ORDER BY DemoID
RECURSIVE OrderByDemoID(_)
OrderByDemoID(T) ==
    IF T = {} THEN <<>>
    ELSE LET m == CHOOSE x \in T : \A y \in T : x.demoid <= y.demoid
         IN  <<m>> \o OrderByDemoID(T \ {m})

Min(a, b) == IF a < b THEN a ELSE b

\* SELECT <cols> of every row of a sequence of rows.
Select(cols, rs) == [i \in 1..Len(rs) |-> [c \in cols |-> rs[i][c]]]

\* OffsetQuery without its OFFSET clause.
OffsetQueryNoOffset(T, limit, offset) ==
    LET all == OrderByDemoID(T)
    IN  Select({"name", "message", "priority"}, SubSeq(all, 1, Min(Len(all), limit)))

\* SELECT name, message, priority FROM Demo ORDER BY DemoID LIMIT $1 OFFSET $2
OffsetQuery(T, limit, offset) ==
    LET all == OrderByDemoID(T)
    IN  Select({"name", "message", "priority"},
               SubSeq(all, offset + 1, Min(Len(all), offset + limit)))

\* CursorQuery with DemoID >= $2 for DemoID > $2.
CursorQueryInclusive(T, limit, cursor) ==
    LET matching == OrderByDemoID({x \in T : x.demoid >= cursor})
    IN  Select({"name", "message", "priority", "demoid"},
               SubSeq(matching, 1, Min(Len(matching), limit)))

\* SELECT name, message, priority, DemoID FROM Demo WHERE DemoID > $2
\* ORDER BY DemoID LIMIT $1
CursorQuery(T, limit, cursor) ==
    LET matching == OrderByDemoID({x \in T : x.demoid > cursor})
    IN  Select({"name", "message", "priority", "demoid"},
               SubSeq(matching, 1, Min(Len(matching), limit)))

\* SELECT count(*) AS exact_count FROM demo
CountQuery(T) == Cardinality(T)

\* All orders in which a statement without ORDER BY may return a set of rows.
Orders(S) ==
    {s \in [1..Cardinality(S) -> S] : \A i, j \in 1..Cardinality(S) : i # j => s[i] # s[j]}

\* INSERT INTO DEMO(Name, Message, Priority) VALUES ($1, $2, $3) RETURNING *
\* Priority is an integer column: a text that is no integer is rejected when
\* the parameter is read, a duplicate Name after the key has been drawn.
InsertKind(T, name, priority) ==
    IF ~IsIntLiteral(priority) THEN "invalid"
    ELSE IF \E x \in T : x.name = name THEN "exists"
    ELSE "ok"

InsertedRow(id, name, message, priority) ==
    [demoid |-> id, name |-> name, message |-> message,
     priority |-> ToNumber(priority).val]

\* UpdateQuery without its WHERE clause.
UpdateQueryAllRows(T, message, name) == {[x EXCEPT !.message = message] : x \in T}

\* UPDATE Demo SET message = $1 WHERE name = $2 RETURNING *
UpdateQuery(T, message, name) ==
    {IF x.name = name THEN [x EXCEPT !.message = message] ELSE x : x \in T}

UpdateReturning(T, message, name) ==
    {[x EXCEPT !.message = message] : x \in {y \in T : y.name = name}}

\* DeleteNameReturning without its WHERE clause.
DeleteNameReturningAll(T, name) == T

\* DELETE FROM Demo WHERE name = $1 RETURNING *
DeleteNameReturning(T, name) == {x \in T : x.name = name}

\* DELETE FROM Demo WHERE priority = $1 RETURNING *
DeletePriorityReturning(T, priority) == {x \in T : x.priority = priority}

\* --------------------------------------------- closed_message.ts: helpers

formatClosed(resultRow) ==
    [c \in DOMAIN resultRow \cup {"formatted"} |->
        IF c = "formatted"
        THEN <<"{">> \o Template(resultRow, "priority") \o <<"} - [">>
             \o Template(resultRow, "name") \o <<"] says: ">>
             \o Template(resultRow, "message")
        ELSE resultRow[c]]

DefaultLimit == 10

\* limit, offset and cursor as the handlers compute them from the query.
EffLimit(raw) ==
    IF isNumberProvided(raw) /\ JSGt(ToNumber(raw), 0) THEN ToNumber(raw).val
    ELSE DefaultLimit

EffOffset(raw) ==
    IF isNumberProvided(raw) /\ JSGe(ToNumber(raw), 0) THEN ToNumber(raw).val
    ELSE 0

EffCursor(raw) ==
    IF isNumberProvided(raw) /\ JSGe(ToNumber(raw), 0) THEN ToNumber(raw).val
    ELSE 0

\* rows.map((row) => row.demoid).reduce((max, id) => (id > max ? id : max)):
\* reduce without an initial value throws a TypeError on an empty array.
RECURSIVE ReduceMax(_, _)
ReduceMax(max, ids) ==
    IF Len(ids) = 0 THEN max
    ELSE ReduceMax(IF ids[1] > max THEN ids[1] ELSE max, Tail(ids))

ServerError == [status |-> 500, body |-> [message |-> <<"server error - contact support">>]]

Message(status, text) == [status |-> status, body |-> [message |-> <<text>>]]

\* ------------------------------------------------ the middleware dispatch

\* What a layer of a route does with a request: it sends a response, it
\* calls pool.query (and answers from the callback), or it calls next().
Check(name, resp) == [name |-> name, resp |-> resp, query |-> FALSE]
Handler(name) == [name |-> name, resp |-> NoResponse, query |-> TRUE]
CallsNext(layer) == layer.resp.status = 0 /\ ~layer.query

\* A chain whose layers call next() even after sending a response.
RECURSIVE RunChainNoStop(_)
RunChainNoStop(layers) ==
    IF Len(layers) = 0
    THEN [ran |-> <<>>, resp |-> NoResponse, query |-> FALSE, sent |-> 0]
    ELSE IF layers[1].query
         THEN [ran |-> <<layers[1].name>>, resp |-> NoResponse, query |-> TRUE,
               sent |-> 0]
    ELSE LET rest == RunChainNoStop(Tail(layers))
             responds == layers[1].resp.status # 0
         IN  [ran |-> <<layers[1].name>> \o rest.ran,
              resp |-> IF responds THEN layers[1].resp ELSE rest.resp,
              query |-> rest.query,
              sent |-> rest.sent + (IF responds THEN 1 ELSE 0)]

\* The layers of a route run in the order they were registered, each one
\* only when the one before it called next().
RECURSIVE RunChain(_)
RunChain(layers) ==
    IF Len(layers) = 0
    THEN [ran |-> <<>>, resp |-> NoResponse, query |-> FALSE, sent |-> 0]
    ELSE IF ~CallsNext(layers[1])
         THEN [ran |-> <<layers[1].name>>, resp |-> layers[1].resp,
               query |-> layers[1].query,
               sent |-> IF layers[1].resp.status # 0 THEN 1 ELSE 0]
    ELSE LET rest == RunChain(Tail(layers))
         IN  [rest EXCEPT !.ran = <<layers[1].name>> \o @]

\* A dispatch whose handler issues its statement a second time.
StartedRepeatingQuery(route, q, layers) ==
    LET c == RunChain(layers)
    IN  [route |-> route, q |-> q, pc |-> IF c.query THEN "query" ELSE "done",
         ran |-> c.ran, sql |-> IF c.query THEN 2 ELSE 0, fault |-> FALSE,
         rows |-> <<>>, resp |-> c.resp, sent |-> c.sent]

\* The synchronous part of a request: the layers up to the first response or
\* the first pool.query call.
Started(route, q, layers) ==
    LET c == RunChain(layers)
    IN  [route |-> route, q |-> q, pc |-> IF c.query THEN "query" ELSE "done",
         ran |-> c.ran, sql |-> IF c.query THEN 1 ELSE 0, fault |-> FALSE,
         rows |-> <<>>, resp |-> c.resp, sent |-> c.sent]

\* fault records that the database failed one of the request's statements
\* for a reason outside the statement (a lost connection, a timeout).
Faulted(rq, fail) == [rq EXCEPT !.fault = @ \/ fail]

\* sent counts the responses the request was given.
Responded(rq, resp) == [rq EXCEPT !.pc = "done", !.resp = resp, !.sent = @ + 1]

\* A rejected promise nobody catches: the handler ends without a response.
Escaped(rq) == [rq EXCEPT !.pc = "escaped"]

Awaiting(r, route, pc) == req[r].route = route /\ req[r].pc = pc

\* The request of r on route has its response.
Done(r, route) == req[r].route = route /\ req[r].pc = "done"

\* --------------------------------------- closed_message.ts: GET /offset

GetOffset(r) ==
    /\ Free(r)
    /\ \E limit \in LimitInputs, offset \in OffsetInputs :
          req' = [req EXCEPT ![r] =
                    Started("GET /offset", [limit |-> limit, offset |-> offset],
                            <<Handler("offset")>>)]
    /\ UNCHANGED <<demo, nextId, books, pager>>

\* const { rows } = await pool.query(theQuery, values); then the count query
\* is issued.
GetOffsetRows(r) ==
    /\ Awaiting(r, "GET /offset", "query")
    /\ \E fail \in BOOLEAN :
          req' = [req EXCEPT ![r] =
                    IF fail THEN Escaped(Faulted(@, fail))
                    ELSE [@ EXCEPT !.pc = "count", !.sql = @ + 1,
                                   !.rows = OffsetQuery(demo, EffLimit(req[r].q.limit),
                                                        EffOffset(req[r].q.offset))]]
    /\ UNCHANGED <<demo, nextId, books, pager>>

\* A response whose nextPage stops at the total count.
OffsetResponseCapped(rows, count, limit, offset) ==
    [status |-> 200,
     body |-> [entries |-> [i \in 1..Len(rows) |-> formatClosed(rows[i])],
               pagination |-> [totalRecords |-> count, limit |-> limit,
                               offset |-> offset,
                               nextPage |-> Min(count, limit + offset)]]]

OffsetResponse(rows, count, limit, offset) ==
    [status |-> 200,
     body |-> [entries |-> [i \in 1..Len(rows) |-> formatClosed(rows[i])],
               pagination |-> [totalRecords |-> count, limit |-> limit,
                               offset |-> offset, nextPage |-> limit + offset]]]

GetOffsetCount(r) ==
    /\ Awaiting(r, "GET /offset", "count")
    /\ \E fail \in BOOLEAN :
          req' = [req EXCEPT ![r] =
                    IF fail THEN Escaped(Faulted(@, fail))
                    ELSE Responded(Faulted(@, fail), OffsetResponse(req[r].rows, CountQuery(demo),
                                                     EffLimit(req[r].q.limit),
                                                     EffOffset(req[r].q.offset)))]
    /\ UNCHANGED <<demo, nextId, books, pager>>

\* --------------------------------------- closed_message.ts: GET /cursor

GetCursor(r) ==
    /\ Free(r)
    /\ \E limit \in LimitInputs, cursor \in CursorInputs :
          req' = [req EXCEPT ![r] =
                    Started("GET /cursor", [limit |-> limit, cursor |-> cursor],
                            <<Handler("cursor")>>)]
    /\ UNCHANGED <<demo, nextId, books, pager>>

GetCursorRows(r) ==
    /\ Awaiting(r, "GET /cursor", "query")
    /\ \E fail \in BOOLEAN :
          req' = [req EXCEPT ![r] =
                    IF fail THEN Escaped(Faulted(@, fail))
                    ELSE [@ EXCEPT !.pc = "count", !.sql = @ + 1,
                                   !.rows = CursorQuery(demo, EffLimit(req[r].q.limit),
                                                        EffCursor(req[r].q.cursor))]]
    /\ UNCHANGED <<demo, nextId, books, pager>>

\* ({ demoid, ...rest }) => rest
StripDemoid(row) == [c \in DOMAIN row \ {"demoid"} |-> row[c]]

\* A response whose cursor is the key of the first row of the page.
CursorResponseFirstKey(rows, count, limit) ==
    [status |-> 200,
     body |-> [entries |-> [i \in 1..Len(rows) |-> formatClosed(StripDemoid(rows[i]))],
               pagination |-> [totalRecords |-> count, limit |-> limit,
                               cursor |-> rows[1].demoid]]]

CursorResponse(rows, count, limit) ==
    [status |-> 200,
     body |-> [entries |-> [i \in 1..Len(rows) |-> formatClosed(StripDemoid(rows[i]))],
               pagination |-> [totalRecords |-> count, limit |-> limit,
                               cursor |-> ReduceMax(rows[1].demoid,
                                                    Tail([i \in 1..Len(rows) |-> rows[i].demoid]))]]]

\* A handler that answers an empty page instead of reducing it.
GetCursorCountEmptyPage(r) ==
    /\ Awaiting(r, "GET /cursor", "count")
    /\ \E fail \in BOOLEAN :
          req' = [req EXCEPT ![r] =
                    IF fail THEN Escaped(Faulted(@, fail))
                    ELSE IF Len(req[r].rows) = 0
                         THEN Responded(@, [status |-> 200,
                                            body |-> [entries |-> <<>>,
                                                      pagination |->
                                                        [totalRecords |-> CountQuery(demo),
                                                         limit |-> EffLimit(req[r].q.limit),
                                                         cursor |-> EffCursor(req[r].q.cursor)]]])
                    ELSE Responded(@, CursorResponse(req[r].rows, CountQuery(demo),
                                                     EffLimit(req[r].q.limit)))]
    /\ UNCHANGED <<demo, nextId, books, pager>>

\* The response is built after the count query; reduce throws on an empty
\* page and the rejection is not caught.
GetCursorCount(r) ==
    /\ Awaiting(r, "GET /cursor", "count")
    /\ \E fail \in BOOLEAN :
          req' = [req EXCEPT ![r] =
                    IF fail \/ Len(req[r].rows) = 0 THEN Escaped(Faulted(@, fail))
                    ELSE Responded(Faulted(@, fail), CursorResponse(req[r].rows, CountQuery(demo),
                                                     EffLimit(req[r].q.limit)))]
    /\ UNCHANGED <<demo, nextId, books, pager>>

\* ------------------------------------------- closed_message.ts: POST /

closedValidNameMessage(q) ==
    IF isStringProvided(q.name) /\ isStringProvided(q.message) THEN NoResponse
    ELSE Message(400, "Missing required information - please refer to documentation")

closedValidPriority(q) ==
    IF /\ isNumberProvided(q.priority)
       /\ JSGe(parseInt(q.priority), 1)
       /\ JSLe(parseInt(q.priority), 3)
    THEN NoResponse
    ELSE Message(400, "Invalid or missing Priority - please refer to documentation")

PostClosed(r) ==
    /\ Free(r)
    /\ nextId <= MaxId
    /\ \E name \in NameInputs, message \in MessageInputs, priority \in PriorityInputs :
          LET q == [name |-> name, message |-> message, priority |-> priority]
          IN  req' = [req EXCEPT ![r] =
                        Started("closed POST /", q,
                                <<Check("nameMessage", closedValidNameMessage(q)),
                                  Check("priority", closedValidPriority(q)),
                                  Handler("insert")>>)]
    /\ UNCHANGED <<demo, nextId, books, pager>>

\* An INSERT that also stores a row whose name is already in the table.
InsertEffectDuplicate(fail, q) ==
    LET kind == IF fail THEN "failed" ELSE InsertKind(demo, q.name, q.priority)
    IN  /\ demo' = IF kind \in {"ok", "exists"}
                   THEN demo \cup {InsertedRow(nextId, q.name, q.message, q.priority)}
                   ELSE demo
        /\ nextId' = IF kind \in {"ok", "exists"} THEN nextId + 1 ELSE nextId

\* The effect of the INSERT statement on the table and the sequence.
InsertEffect(fail, q) ==
    LET kind == IF fail THEN "failed" ELSE InsertKind(demo, q.name, q.priority)
    IN  /\ demo' = IF kind = "ok"
                   THEN demo \cup {InsertedRow(nextId, q.name, q.message, q.priority)}
                   ELSE demo
        /\ nextId' = IF kind \in {"ok", "exists"} THEN nextId + 1 ELSE nextId

\* A callback that answers 201 also when the INSERT hit a stored name.
PostClosedResponseCreated(kind, row) ==
    CASE kind \in {"ok", "exists"} -> [status |-> 201, body |-> [entry |-> formatClosed(row)]]
      [] OTHER -> ServerError

PostClosedResponse(kind, row) ==
    CASE kind = "ok" -> [status |-> 201, body |-> [entry |-> formatClosed(row)]]
      [] kind = "exists" -> Message(400, "Name exists")
      [] OTHER -> ServerError

PostClosedQuery(r) ==
    /\ Awaiting(r, "closed POST /", "query")
    /\ \E fail \in BOOLEAN :
          LET q == req[r].q
              kind == IF fail THEN "failed" ELSE InsertKind(demo, q.name, q.priority)
          IN  /\ InsertEffect(fail, q)
              /\ req' = [req EXCEPT ![r] =
                           Responded(Faulted(@, fail), PostClosedResponse(kind,
                               InsertedRow(nextId, q.name, q.message, q.priority)))]
    /\ UNCHANGED <<books, pager>>

\* ------------------------------------ closed_message.ts: DELETE /:name

DeleteNameClosed(r) ==
    /\ Free(r)
    /\ \E name \in Names :
          req' = [req EXCEPT ![r] = Started("closed DELETE /:name", [name |-> name],
                                               <<Handler("delete")>>)]
    /\ UNCHANGED <<demo, nextId, books, pager>>

DeleteNameClosedResponse(fail, deleted) ==
    IF fail THEN ServerError
    ELSE IF Cardinality(deleted) = 1
         THEN LET row == CHOOSE x \in deleted : TRUE
              IN  [status |-> 200,
                   body |-> [entry |-> <<"Deleted: ">> \o formatClosed(row).formatted]]
    ELSE Message(404, "Name not found")

DeleteNameClosedQuery(r) ==
    /\ Awaiting(r, "closed DELETE /:name", "query")
    /\ \E fail \in BOOLEAN :
          LET deleted == IF fail THEN {} ELSE DeleteNameReturning(demo, req[r].q.name)
          IN  /\ demo' = demo \ deleted
              /\ req' = [req EXCEPT ![r] = Responded(Faulted(@, fail), DeleteNameClosedResponse(fail, deleted))]
    /\ UNCHANGED <<nextId, books, pager>>

\* ---------------------------------------------- message.ts: helpers

formatOpen(resultRow) ==
    <<"{">> \o Template(resultRow, "title") \o <<"} by [">>
    \o Template(resultRow, "authors") \o <<"] - ISBN: [">>
    \o Template(resultRow, "isbn13") \o <<"], published in [">>
    \o Template(resultRow, "publication_year") \o <<"], average rating: [">>
    \o Template(resultRow, "rating_avg") \o <<"]">>

mwValidPriorityQuery(q) ==
    IF /\ isNumberProvided(q.priority)
       /\ JSGe(parseInt(q.priority), 1)
       /\ JSLe(parseInt(q.priority), 3)
    THEN NoResponse
    ELSE Message(400, "Invalid or missing Priority - please refer to documentation")

mwValidNameMessageBody(q) ==
    IF isStringProvided(q.name) /\ isStringProvided(q.message) THEN NoResponse
    ELSE Message(400, "Missing required information - please refer to documentation")

\* The priority check of POST /, on the body.
openValidPriority(q) ==
    IF /\ isNumberProvided(q.priority)
       /\ JSGe(parseInt(q.priority), 1)
       /\ JSLe(parseInt(q.priority), 3)
    THEN NoResponse
    ELSE Message(400, "Invalid or missing Priority - please refer to documentation")

\* A row sequence mapped through format.
MapFormatOpen(rows) == [i \in 1..Len(rows) |-> formatOpen(rows[i])]

\* --------------------------------------------------- message.ts: POST /

PostMessage(r) ==
    /\ Free(r)
    /\ nextId <= MaxId
    /\ \E name \in NameInputs, message \in MessageInputs, priority \in PriorityInputs :
          LET q == [name |-> name, message |-> message, priority |-> priority]
          IN  req' = [req EXCEPT ![r] =
                        Started("open POST /", q,
                                <<Check("mwValidNameMessageBody", mwValidNameMessageBody(q)),
                                  Check("priority", openValidPriority(q)),
                                  Handler("insert")>>)]
    /\ UNCHANGED <<demo, nextId, books, pager>>

PostMessageResponse(kind, row) ==
    CASE kind = "ok" -> [status |-> 201, body |-> [entry |-> formatOpen(row)]]
      [] kind = "exists" -> Message(400, "Name exists")
      [] OTHER -> ServerError

PostMessageQuery(r) ==
    /\ Awaiting(r, "open POST /", "query")
    /\ \E fail \in BOOLEAN :
          LET q == req[r].q
              kind == IF fail THEN "failed" ELSE InsertKind(demo, q.name, q.priority)
          IN  /\ InsertEffect(fail, q)
              /\ req' = [req EXCEPT ![r] =
                           Responded(Faulted(@, fail), PostMessageResponse(kind,
                               InsertedRow(nextId, q.name, q.message, q.priority)))]
    /\ UNCHANGED <<books, pager>>

\* ------------------------------------------------- message.ts: GET /all

GetAll(r) ==
    /\ Free(r)
    /\ req' = [req EXCEPT ![r] = Started("GET /all", [none |-> Undefined], <<Handler("all")>>)]
    /\ UNCHANGED <<demo, nextId, books, pager>>

\* SELECT name, message, priority FROM Demo, in the order the database
\* chooses.
GetAllQuery(r) ==
    /\ Awaiting(r, "GET /all", "query")
    /\ \E fail \in BOOLEAN, rows \in Orders(demo) :
          req' = [req EXCEPT ![r] =
                    Responded(Faulted(@, fail), IF fail THEN ServerError
                                 ELSE [status |-> 200,
                                       body |-> [entries |-> MapFormatOpen(
                                           Select({"name", "message", "priority"}, rows))]])]
    /\ UNCHANGED <<demo, nextId, books, pager>>

\* ------------------------------------------ message.ts: GET /name/:name

GetName(r) ==
    /\ Free(r)
    /\ \E name \in Names :
          req' = [req EXCEPT ![r] = Started("GET /name/:name", [name |-> name],
                                            <<Handler("name")>>)]
    /\ UNCHANGED <<demo, nextId, books, pager>>

GetNameResponse(fail, rows) ==
    IF fail THEN ServerError
    ELSE IF Len(rows) = 1 THEN [status |-> 200, body |-> [entry |-> rows[1]]]
    ELSE Message(404, "Name not found")

GetNameQuery(r) ==
    /\ Awaiting(r, "GET /name/:name", "query")
    /\ \E fail \in BOOLEAN, rows \in Orders({x \in demo : x.name = req[r].q.name}) :
          req' = [req EXCEPT ![r] =
                    Responded(Faulted(@, fail), GetNameResponse(fail,
                                   Select({"name", "message", "priority"}, rows)))]
    /\ UNCHANGED <<demo, nextId, books, pager>>

\* ---------------------------------------------------- message.ts: PUT /

PutMessage(r) ==
    /\ Free(r)
    /\ \E name \in NameInputs, message \in MessageInputs :
          LET q == [name |-> name, message |-> message]
          IN  req' = [req EXCEPT ![r] =
                        Started("PUT /", q,
                                <<Check("mwValidNameMessageBody", mwValidNameMessageBody(q)),
                                  Handler("update")>>)]
    /\ UNCHANGED <<demo, nextId, books, pager>>

PutMessageResponse(fail, updated) ==
    IF fail THEN ServerError
    ELSE IF Cardinality(updated) = 1
         THEN [status |-> 200,
               body |-> [entry |-> <<"Updated: ">> \o formatOpen(CHOOSE x \in updated : TRUE)]]
    ELSE Message(404, "Name not found")

PutMessageQuery(r) ==
    /\ Awaiting(r, "PUT /", "query")
    /\ \E fail \in BOOLEAN :
          LET q == req[r].q
          IN  /\ demo' = IF fail THEN demo ELSE UpdateQuery(demo, q.message, q.name)
              /\ req' = [req EXCEPT ![r] =
                           Responded(Faulted(@, fail), PutMessageResponse(fail,
                               UpdateReturning(demo, q.message, q.name)))]
    /\ UNCHANGED <<nextId, books, pager>>

\* ----------------------------------- message.ts: DELETE / (by priority)

DeletePriority(r) ==
    /\ Free(r)
    /\ \E priority \in PriorityInputs :
          LET q == [priority |-> priority]
          IN  req' = [req EXCEPT ![r] =
                        Started("DELETE /", q,
                                <<Check("mwValidPriorityQuery", mwValidPriorityQuery(q)),
                                  Handler("deletePriority")>>)]
    /\ UNCHANGED <<demo, nextId, books, pager>>

\* The outcome of comparing the integer column priority with a parameter.
PriorityParamKind(fail, priority) ==
    IF fail THEN "failed" ELSE IF ~IsIntLiteral(priority) THEN "invalid" ELSE "ok"

DeletePriorityResponse(kind, rows, priority) ==
    IF kind # "ok" THEN ServerError
    ELSE IF Len(rows) > 0 THEN [status |-> 200, body |-> [entries |-> MapFormatOpen(rows)]]
    ELSE [status |-> 404,
          body |-> [message |-> <<"No Priority ">> \o priority \o <<" messages found">>]]

DeletePriorityQuery(r) ==
    /\ Awaiting(r, "DELETE /", "query")
    /\ \E fail \in BOOLEAN :
          LET p == req[r].q.priority
              kind == PriorityParamKind(fail, p)
              deleted == IF kind = "ok"
                         THEN DeletePriorityReturning(demo, ToNumber(p).val) ELSE {}
          IN  /\ demo' = demo \ deleted
              /\ \E rows \in Orders(deleted) :
                    req' = [req EXCEPT ![r] =
                              Responded(Faulted(@, fail), DeletePriorityResponse(kind, rows, p))]
    /\ UNCHANGED <<nextId, books, pager>>

\* -------------------------------------------- message.ts: DELETE /:name

DeleteName(r) ==
    /\ Free(r)
    /\ \E name \in Names :
          req' = [req EXCEPT ![r] = Started("open DELETE /:name", [name |-> name],
                                            <<Handler("delete")>>)]
    /\ UNCHANGED <<demo, nextId, books, pager>>

DeleteNameResponse(fail, deleted) ==
    IF fail THEN ServerError
    ELSE IF Cardinality(deleted) = 1
         THEN [status |-> 200,
               body |-> [entry |-> <<"Deleted: ">> \o formatOpen(CHOOSE x \in deleted : TRUE)]]
    ELSE Message(404, "Name not found")

DeleteNameQuery(r) ==
    /\ Awaiting(r, "open DELETE /:name", "query")
    /\ \E fail \in BOOLEAN :
          LET deleted == IF fail THEN {} ELSE DeleteNameReturning(demo, req[r].q.name)
          IN  /\ demo' = demo \ deleted
              /\ req' = [req EXCEPT ![r] = Responded(Faulted(@, fail), DeleteNameResponse(fail, deleted))]
    /\ UNCHANGED <<nextId, books, pager>>

\* ------------------------------------------------ message.ts: GET /

\* A string in a condition: undefined and the empty string are falsy.
Truthy(s) == s # Undefined /\ Len(s) > 0

myValidAuthorQuery(q) ==
    IF isStringProvided(q.authors) THEN NoResponse
    ELSE Message(400, "Invalid or missing author - please refer to documentation")

myValidPublicationYearQuery(q) ==
    IF isNumberProvided(q.publication_year) /\ Len(q.publication_year) = 4 THEN NoResponse
    ELSE Message(400, "Invalid or missing publication_year - please refer to documentation")

mwValidRatingAverageQuery(q) ==
    IF isNumberProvided(q.rating_avg) THEN NoResponse
    ELSE Message(400, "Invalid or missing rating_avg - please refer to documentation")

\* The first GET / layer: answers when only authors is given, else next().
AuthorsLayer(q) ==
    IF Truthy(q.authors) /\ ~Truthy(q.rating_avg) /\ ~Truthy(q.publication_year)
    THEN IF myValidAuthorQuery(q).status = 0 THEN Handler("authors")
         ELSE Check("authors", myValidAuthorQuery(q))
    ELSE Check("authors", NoResponse)

\* The second GET / layer: answers when only publication_year is given.
PublicationYearLayer(q) ==
    IF Truthy(q.publication_year) /\ ~Truthy(q.rating_avg) /\ ~Truthy(q.authors)
    THEN IF myValidPublicationYearQuery(q).status = 0 THEN Handler("publication_year")
         ELSE Check("publication_year", myValidPublicationYearQuery(q))
    ELSE Check("publication_year", NoResponse)

\* The GET / handlers in the order message.ts registers them.
RootLayers(q) ==
    <<AuthorsLayer(q),
      PublicationYearLayer(q),
      Check("mwValidRatingAverageQuery", mwValidRatingAverageQuery(q)),
      Handler("rating_avg"),
      Check("mwValidPriorityQuery", mwValidPriorityQuery(q)),
      Handler("priority")>>

GetRoot(r) ==
    /\ Free(r)
    /\ \E authors \in AuthorsInputs, year \in YearInputs, rating \in RatingInputs,
          priority \in RootPriorityInputs :
          LET q == [authors |-> authors, publication_year |-> year,
                    rating_avg |-> rating, priority |-> priority]
          IN  req' = [req EXCEPT ![r] = Started("GET /", q, RootLayers(q))]
    /\ UNCHANGED <<demo, nextId, books, pager>>

\* authors LIKE '%' || $1 || '%'
Contains(s, pat) ==
    \E i \in 1..(Len(s) - Len(pat) + 1) : SubSeq(s, i, i + Len(pat) - 1) = pat

RECURSIVE StripTrailingZeros(_)
StripTrailingZeros(s) ==
    IF Len(s) > 0 /\ s[Len(s)] = "0" THEN StripTrailingZeros(SubSeq(s, 1, Len(s) - 1))
    ELSE s

\* The numeric value of a decimal literal, for comparing two of them.
DecimalValue(s) ==
    LET u == Unsigned(s)
        k == DigitPrefixLen(u)
        whole == DigitsVal(SubSeq(u, 1, k))
        frac == StripTrailingZeros(IF k < Len(u) THEN SubSeq(u, k + 2, Len(u)) ELSE <<>>)
    IN  [neg |-> u # s /\ (whole # 0 \/ Len(frac) > 0), whole |-> whole, frac |-> frac]

\* The rows a GET / handler selects, and "invalid" when the database cannot
\* read the parameter as a value of the column's type.
RootParamKind(fail, handler, q) ==
    IF fail THEN "failed"
    ELSE IF handler = "publication_year" /\ ~IsIntLiteral(q.publication_year) THEN "invalid"
    ELSE IF handler = "priority" /\ ~IsIntLiteral(q.priority) THEN "invalid"
    ELSE "ok"

RootRows(handler, q) ==
    CASE handler = "authors" -> {b \in books : Contains(b.authors, q.authors)}
      [] handler = "publication_year" ->
            {b \in books : b.publication_year = ToNumber(q.publication_year).val}
      [] handler = "rating_avg" ->
            {b \in books : DecimalValue(b.rating_avg) = DecimalValue(q.rating_avg)}
      [] handler = "priority" ->
            {[c \in {"name", "message", "priority"} |-> x[c]] :
                x \in {y \in demo : y.priority = ToNumber(q.priority).val}}

RootNotFound(handler, q) ==
    CASE handler = "authors" -> Message(404, "No book associated with this author was found")
      [] handler = "publication_year" ->
            Message(404, "No book associated with this publication year was found")
      [] handler = "rating_avg" ->
            Message(404, "No book associated with this rating_avg was found")
      [] handler = "priority" ->
            [status |-> 404,
             body |-> [message |-> <<"No Priority ">> \o q.priority \o <<" messages found">>]]

RootResponse(kind, handler, q, rows) ==
    IF kind # "ok" THEN ServerError
    ELSE IF Len(rows) > 0
         THEN [status |-> 200,
               body |-> [entries |-> IF handler = "priority" THEN rows
                                     ELSE MapFormatOpen(rows)]]
    ELSE RootNotFound(handler, q)

GetRootQuery(r) ==
    /\ Awaiting(r, "GET /", "query")
    /\ \E fail \in BOOLEAN :
          LET q == req[r].q
              handler == req[r].ran[Len(req[r].ran)]
              kind == RootParamKind(fail, handler, q)
          IN  \E rows \in Orders(IF kind = "ok" THEN RootRows(handler, q) ELSE {}) :
                 req' = [req EXCEPT ![r] = Responded(Faulted(@, fail), RootResponse(kind, handler, q, rows))]
    /\ UNCHANGED <<demo, nextId, books, pager>>

\* ------------------------------------- message.ts: GET /isbn13/:isbn13

IsbnLength == 13

\* myValidIsbn13Param without the length check.
myValidIsbn13ParamAnyLength(q) ==
    IF isNumberProvided(q.isbn13) THEN NoResponse
    ELSE Message(400, "Invalid or missing isbn13 - please refer to documentation")

myValidIsbn13Param(q) ==
    IF isNumberProvided(q.isbn13) /\ Len(q.isbn13) = IsbnLength THEN NoResponse
    ELSE Message(400, "Invalid or missing isbn13 - please refer to documentation")

GetIsbn13(r) ==
    /\ Free(r)
    /\ \E isbn13 \in IsbnInputs :
          LET q == [isbn13 |-> isbn13]
          IN  req' = [req EXCEPT ![r] =
                        Started("GET /isbn13/:isbn13", q,
                                <<Check("myValidIsbn13Param", myValidIsbn13Param(q)),
                                  Handler("isbn13")>>)]
    /\ UNCHANGED <<demo, nextId, books, pager>>

\* The response of the handlers that expect exactly one row.
OneBookResponse(fail, rows, notFound) ==
    IF fail THEN ServerError
    ELSE IF Len(rows) = 1 THEN [status |-> 200, body |-> [entry |-> rows[1]]]
    ELSE Message(404, notFound)

GetIsbn13Query(r) ==
    /\ Awaiting(r, "GET /isbn13/:isbn13", "query")
    /\ \E fail \in BOOLEAN, rows \in Orders({b \in books : b.isbn13 = req[r].q.isbn13}) :
          req' = [req EXCEPT ![r] =
                    Responded(Faulted(@, fail), OneBookResponse(fail, rows,
                                   "No book associated with this isbn13 was found"))]
    /\ UNCHANGED <<demo, nextId, books, pager>>

\* --------------------------------------- message.ts: GET /title/:title

myValidTitleParam(q) ==
    IF ~isNumberProvided(q.title) /\ isStringProvided(q.title) THEN NoResponse
    ELSE Message(400, "Invalid or missing title - please refer to documentation")

GetTitle(r) ==
    /\ Free(r)
    /\ \E title \in TitleInputs :
          LET q == [title |-> title]
          IN  req' = [req EXCEPT ![r] =
                        Started("GET /title/:title", q,
                                <<Check("myValidTitleParam", myValidTitleParam(q)),
                                  Handler("title")>>)]
    /\ UNCHANGED <<demo, nextId, books, pager>>

GetTitleQuery(r) ==
    /\ Awaiting(r, "GET /title/:title", "query")
    /\ \E fail \in BOOLEAN, rows \in Orders({b \in books : b.title = req[r].q.title}) :
          req' = [req EXCEPT ![r] =
                    Responded(Faulted(@, fail), OneBookResponse(fail, rows,
                                   "No book associated with this title was found"))]
    /\ UNCHANGED <<demo, nextId, books, pager>>

\* -------------------------------------------- message.ts: GET /retrieve

GetRetrieve(r) ==
    /\ Free(r)
    /\ req' = [req EXCEPT ![r] =
                 Started("GET /retrieve", [none |-> Undefined], <<Handler("retrieve")>>)]
    /\ UNCHANGED <<demo, nextId, books, pager>>

RetrieveResponse(fail, rows) ==
    IF fail THEN ServerError
    ELSE IF Len(rows) > 0 THEN [status |-> 200, body |-> [entries |-> MapFormatOpen(rows)]]
    ELSE Message(404, "No books found")

GetRetrieveQuery(r) ==
    /\ Awaiting(r, "GET /retrieve", "query")
    /\ \E fail \in BOOLEAN, rows \in Orders(books) :
          req' = [req EXCEPT ![r] = Responded(Faulted(@, fail), RetrieveResponse(fail, rows))]
    /\ UNCHANGED <<demo, nextId, books, pager>>

\* ------------------------------------------------------------ clients

\* The client has read the response, or has given up on a request whose
\* handler ended without one, and is ready to send its next request.
Finish(r) ==
    /\ req[r].pc \in {"done", "escaped"}
    /\ req' = [req EXCEPT ![r] = Idle]
    /\ UNCHANGED <<demo, nextId, books, pager>>

\* ------------------------------------------------------- specification

Clients == {1}

Init ==
    /\ demo = {}
    /\ nextId = 1
    /\ books \in {{}, BookCatalog}
    /\ req = [r \in Clients |-> Idle]
    /\ pager = NoPager

Next ==
    \/ \E r \in DOMAIN req : GetOffset(r)
    \/ \E r \in DOMAIN req : GetOffsetRows(r)
    \/ \E r \in DOMAIN req : GetOffsetCount(r)
    \/ \E r \in DOMAIN req : GetCursor(r)
    \/ \E r \in DOMAIN req : GetCursorRows(r)
    \/ \E r \in DOMAIN req : GetCursorCount(r)
    \/ \E r \in DOMAIN req : PostClosed(r)
    \/ \E r \in DOMAIN req : PostClosedQuery(r)
    \/ \E r \in DOMAIN req : DeleteNameClosed(r)
    \/ \E r \in DOMAIN req : DeleteNameClosedQuery(r)
    \/ \E r \in DOMAIN req : PostMessage(r)
    \/ \E r \in DOMAIN req : PostMessageQuery(r)
    \/ \E r \in DOMAIN req : GetAll(r)
    \/ \E r \in DOMAIN req : GetAllQuery(r)
    \/ \E r \in DOMAIN req : GetName(r)
    \/ \E r \in DOMAIN req : GetNameQuery(r)
    \/ \E r \in DOMAIN req : PutMessage(r)
    \/ \E r \in DOMAIN req : PutMessageQuery(r)
    \/ \E r \in DOMAIN req : DeletePriority(r)
    \/ \E r \in DOMAIN req : DeletePriorityQuery(r)
    \/ \E r \in DOMAIN req : DeleteName(r)
    \/ \E r \in DOMAIN req : DeleteNameQuery(r)
    \/ \E r \in DOMAIN req : GetRoot(r)
    \/ \E r \in DOMAIN req : GetRootQuery(r)
    \/ \E r \in DOMAIN req : GetIsbn13(r)
    \/ \E r \in DOMAIN req : GetIsbn13Query(r)
    \/ \E r \in DOMAIN req : GetTitle(r)
    \/ \E r \in DOMAIN req : GetTitleQuery(r)
    \/ \E r \in DOMAIN req : GetRetrieve(r)
    \/ \E r \in DOMAIN req : GetRetrieveQuery(r)
    \/ \E r \in DOMAIN req : Finish(r)

Spec == Init /\ [][Next]_vars

\* ---------------------------------------- concurrent writers on Demo

\* Two clients of the message router whose requests on Demo are in flight
\* at the same time. The statements of the two requests run in either
\* order; each statement is atomic in the database.
ConcClients == {1, 2}

\* The request the step sends passes its validation checks.
WellFormed(r) == req'[r].pc = "query"

InitConc ==
    /\ demo = {}
    /\ nextId = 1
    /\ books = {}
    /\ req = [r \in ConcClients |-> Idle]
    /\ pager = NoPager

NextConc ==
    \/ \E r \in DOMAIN req : PostMessage(r) /\ WellFormed(r)
    \/ \E r \in DOMAIN req : PostMessageQuery(r)
    \/ \E r \in DOMAIN req : PutMessage(r) /\ WellFormed(r)
    \/ \E r \in DOMAIN req : PutMessageQuery(r)
    \/ \E r \in DOMAIN req : DeletePriority(r) /\ WellFormed(r)
    \/ \E r \in DOMAIN req : DeletePriorityQuery(r)
    \/ \E r \in DOMAIN req : DeleteName(r)
    \/ \E r \in DOMAIN req : DeleteNameQuery(r)
    \/ \E r \in DOMAIN req : Finish(r)

SpecConc == InitConc /\ [][NextConc]_vars

\* ------------------------------------ one request from each client

\* The table the two requests start from: one stored message.
PairTable == {[demoid |-> 1, name |-> <<"a">>, message |-> <<"h", "i">>, priority |-> 1]}
PairNextId == 1 + Cardinality(PairTable)

InitPair ==
    /\ demo = PairTable
    /\ nextId = PairNextId
    /\ books = {}
    /\ req = [r \in ConcClients |-> Idle]
    /\ pager = NoPager

\* Each client sends one request and keeps its response.
NextPair ==
    \/ \E r \in DOMAIN req : PostClosed(r) /\ WellFormed(r)
    \/ \E r \in DOMAIN req : PostClosedQuery(r)
    \/ \E r \in DOMAIN req : PostMessage(r) /\ WellFormed(r)
    \/ \E r \in DOMAIN req : PostMessageQuery(r)
    \/ \E r \in DOMAIN req : PutMessage(r) /\ WellFormed(r)
    \/ \E r \in DOMAIN req : PutMessageQuery(r)
    \/ \E r \in DOMAIN req : DeletePriority(r) /\ WellFormed(r)
    \/ \E r \in DOMAIN req : DeletePriorityQuery(r)
    \/ \E r \in DOMAIN req : DeleteName(r)
    \/ \E r \in DOMAIN req : DeleteNameQuery(r)
    \/ \E r \in DOMAIN req : DeleteNameClosed(r)
    \/ \E r \in DOMAIN req : DeleteNameClosedQuery(r)

SpecPair == InitPair /\ [][NextPair]_vars

\* -------------------------------- a client paging through GET /cursor

\* Client 1 pages through GET /cursor from cursor 0 with a fixed limit,
\* sending back the cursor of each response, while client 2 creates and
\* deletes messages.
PagingClient == 1
WritingClient == 2

\* The table the traversal starts from.
PagerTable ==
    {[demoid |-> 1, name |-> <<"a">>, message |-> <<"h", "i">>, priority |-> 1],
     [demoid |-> 2, name |-> <<"b">>, message |-> <<"y", "o">>, priority |-> 2]}

\* The page of request r was empty: both statements succeeded and the
\* handler ended without a response.
EmptyPage(r) ==
    /\ req[r].route = "GET /cursor"
    /\ req[r].pc = "escaped"
    /\ ~req[r].fault

InitPager ==
    /\ demo = PagerTable
    /\ nextId = 1 + Cardinality(PagerTable)
    /\ books = {}
    /\ req = [r \in ConcClients |-> Idle]
    /\ \E limit \in {<<"1">>, <<"2">>} :
          pager = [limit |-> limit, cursor |-> <<"0">>, seen |-> <<>>]

\* The next call: the fixed limit and the cursor of the last response.
PagerSend ==
    /\ GetCursor(PagingClient)
    /\ req'[PagingClient].q = [limit |-> pager.limit, cursor |-> pager.cursor]

\* The client reads a page: it notes the rows it was given and takes the
\* cursor of the response for its next call.
PagerReceive ==
    /\ Done(PagingClient, "GET /cursor")
    /\ pager' = [pager EXCEPT
                   !.cursor = NumToString(req[PagingClient].resp.body.pagination.cursor),
                   !.seen = @ \o [i \in 1..Len(req[PagingClient].rows) |->
                                    req[PagingClient].rows[i].demoid]]
    /\ req' = [req EXCEPT ![PagingClient] = Idle]
    /\ UNCHANGED <<demo, nextId, books>>

\* A call the database failed is sent again with the same cursor.
PagerRetry ==
    /\ req[PagingClient].fault
    /\ Finish(PagingClient)

NextPager ==
    \/ PagerSend
    \/ GetCursorRows(PagingClient)
    \/ GetCursorCount(PagingClient)
    \/ PagerReceive
    \/ PagerRetry
    \/ PostClosed(WritingClient) /\ WellFormed(WritingClient)
    \/ PostClosedQuery(WritingClient)
    \/ DeleteNameClosed(WritingClient)
    \/ DeleteNameClosedQuery(WritingClient)
    \/ Finish(WritingClient)

SpecPager == InitPager /\ [][NextPager]_vars

\* ------------------------------------------------------------- properties

\* The step in which the database runs the statement of request r and the
\* handler answers from its result.
QueryStep(r) == req[r].pc = "query" /\ req'[r].pc = "done"

\* A positive integer limit; a non-negative integer offset or cursor.
ValidLimit(raw) == IsIntLiteral(raw) /\ ToNumber(raw).val > 0
ValidPosition(raw) == IsIntLiteral(raw) /\ ToNumber(raw).val >= 0

\* Entry e shows the name, message and priority of row x.
EntryOf(e, x) == e.name = x.name /\ e.message = x.message /\ e.priority = x.priority

\* The rank of row x in Demo ordered by ascending surrogate key.
Position(x) == Cardinality({y \in demo : y.demoid < x.demoid}) + 1

\* C1: GET /cursor with valid limit > 0 and cursor >= 0 returns only rows
\* whose DemoID is greater than cursor, in ascending DemoID order, at most
\* limit of them and the lowest-keyed ones, and pagination.cursor is the
\* largest DemoID among the returned rows.
C1_CursorPage ==
    \A r \in DOMAIN req :
        (/\ Done(r, "GET /cursor")
         /\ ValidLimit(req[r].q.limit)
         /\ ValidPosition(req[r].q.cursor))
        => LET e == req[r].resp.body.entries
               limit == ToNumber(req[r].q.limit).val
               cursor == ToNumber(req[r].q.cursor).val
               after == {x \in demo : x.demoid > cursor}
               Key(i) == (CHOOSE x \in after : EntryOf(e[i], x)).demoid
           IN  /\ req[r].resp.status = 200
               /\ Len(e) <= limit
               /\ \A i \in 1..Len(e) : \E x \in after : EntryOf(e[i], x)
               /\ \A i, j \in 1..Len(e) : i < j => Key(i) < Key(j)
               /\ \A x \in after :
                     \/ \E i \in 1..Len(e) : EntryOf(e[i], x)
                     \/ Len(e) = limit /\ \A i \in 1..Len(e) : Key(i) < x.demoid
               /\ \A i \in 1..Len(e) : Key(i) <= req[r].resp.body.pagination.cursor
               /\ Len(e) > 0
                  => \E i \in 1..Len(e) : Key(i) = req[r].resp.body.pagination.cursor

\* A page of one row after cursor >= 1, with a later row left for the next page.
C1_Witness ==
    \E r \in DOMAIN req :
        /\ Done(r, "GET /cursor")
        /\ ValidLimit(req[r].q.limit)
        /\ ValidPosition(req[r].q.cursor)
        /\ ToNumber(req[r].q.cursor).val >= 1
        /\ Len(req[r].resp.body.entries) = 1
        /\ \E x \in demo : x.demoid > req[r].resp.body.pagination.cursor

\* C2: GET /offset with valid limit > 0 and offset >= 0 returns the rows at
\* positions offset+1 .. offset+limit of Demo ordered by ascending DemoID,
\* at most limit of them, and totalRecords is the size of the whole table.
C2_OffsetPage ==
    \A r \in DOMAIN req :
        (/\ Done(r, "GET /offset")
         /\ ValidLimit(req[r].q.limit)
         /\ ValidPosition(req[r].q.offset))
        => LET e == req[r].resp.body.entries
               limit == ToNumber(req[r].q.limit).val
               offset == ToNumber(req[r].q.offset).val
           IN  /\ req[r].resp.status = 200
               /\ Len(e) <= limit
               /\ \A i \in 1..Len(e) :
                     \E x \in demo : Position(x) = offset + i /\ EntryOf(e[i], x)
               /\ \A x \in demo :
                     Position(x) \in (offset + 1)..(offset + limit)
                     => Position(x) - offset <= Len(e)
               /\ req[r].resp.body.pagination.totalRecords = Cardinality(demo)

\* A page that skips a row and is smaller than the table.
C2_Witness ==
    \E r \in DOMAIN req :
        /\ Done(r, "GET /offset")
        /\ ValidLimit(req[r].q.limit)
        /\ ValidPosition(req[r].q.offset)
        /\ ToNumber(req[r].q.offset).val >= 1
        /\ Len(req[r].resp.body.entries) >= 1
        /\ req[r].resp.body.pagination.totalRecords > Len(req[r].resp.body.entries)

\* A number from 1 to 3.
InRange1To3(p) ==
    LET v == DecimalValue(p)
    IN  ~v.neg /\ v.whole >= 1 /\ (v.whole < 3 \/ (v.whole = 3 /\ Len(v.frac) = 0))

InvalidPriority(p) == p = Undefined \/ ~IsDecimalLiteral(p) \/ ~InRange1To3(p)

PriorityRoutes == {"closed POST /", "open POST /", "DELETE /"}

\* C3: a create or delete-by-priority request whose priority is missing,
\* non-numeric or outside 1..3 is answered 400 and runs no SQL statement.
C3_InvalidPriorityRejected ==
    \A r \in DOMAIN req :
        (req[r].route \in PriorityRoutes /\ InvalidPriority(req[r].q.priority))
        => /\ req[r].sql = 0
           /\ req[r].pc = "done"
           /\ req[r].resp.status = 400

PostRoutes == {"closed POST /", "open POST /"}

\* The 201 entry of a create shows the inserted row.
ShowsRow(route, entry, row) ==
    IF route = "closed POST /" THEN EntryOf(entry, row)
    ELSE Contains(entry, row.name) /\ Contains(entry, row.message)

\* C4: a valid create whose name is in the table is answered 400 "Name
\* exists" and leaves the table unchanged; one whose name is not in the
\* table is answered 201 with the inserted entry and adds exactly that row.
C4_CreateOutcome ==
    [][\A r \in DOMAIN req :
         (/\ req[r].route \in PostRoutes
          /\ QueryStep(r)
          /\ ~req'[r].fault
          /\ IsIntLiteral(req[r].q.priority))
         => LET q == req[r].q
                resp == req'[r].resp
            IN  IF \E x \in demo : x.name = q.name
                THEN /\ resp.status = 400
                     /\ resp.body.message = <<"Name exists">>
                     /\ demo' = demo
                ELSE /\ resp.status = 201
                     /\ \E row \in demo' \ demo :
                           /\ demo' = demo \cup {row}
                           /\ row.name = q.name
                           /\ row.message = q.message
                           /\ row.priority = ToNumber(q.priority).val
                           /\ ShowsRow(req[r].route, resp.body.entry, row)]_vars

DeleteNameRoutes == {"closed DELETE /:name", "open DELETE /:name"}

\* C5: DELETE /:name for a name in the table is answered 200 with a
\* "Deleted: ..." entry and removes exactly that row; for a name not in the
\* table it is answered 404 and the table is unchanged, so a repeated delete
\* is answered 404.
C5_DeleteByName ==
    [][\A r \in DOMAIN req :
         (req[r].route \in DeleteNameRoutes /\ QueryStep(r) /\ ~req'[r].fault)
         => LET present == {x \in demo : x.name = req[r].q.name}
                resp == req'[r].resp
            IN  IF present # {}
                THEN /\ resp.status = 200
                     /\ resp.body.entry[1] = "Deleted: "
                     /\ Cardinality(present) = 1
                     /\ demo' = demo \ present
                     /\ \A x \in demo' : x.name # req[r].q.name
                ELSE /\ resp.status = 404
                     /\ demo' = demo]_vars

\* A name was deleted and another row is still in the table.
C5_Witness ==
    \E r \in DOMAIN req :
        /\ req[r].route \in DeleteNameRoutes
        /\ req[r].pc = "done"
        /\ req[r].resp.status = 200
        /\ demo # {}

\* C6: GET /isbn13/:isbn13 with a 13-digit isbn13 is answered 404 when no
\* book has it and 200 with the full book record when one does; an isbn13
\* that is not a 13-character numeric string is answered 400 without a query.
C6_BookByIsbn13 ==
    \A r \in DOMAIN req :
        (Done(r, "GET /isbn13/:isbn13") /\ ~req[r].fault)
        => LET isbn13 == req[r].q.isbn13
               found == {b \in books : b.isbn13 = isbn13}
           IN  /\ (Len(isbn13) = 13 /\ AllDigits(isbn13) /\ found = {})
                  => req[r].resp.status = 404
               /\ (Len(isbn13) = 13 /\ AllDigits(isbn13) /\ found # {})
                  => /\ req[r].resp.status = 200
                     /\ req[r].resp.body.entry \in found
                     /\ DOMAIN req[r].resp.body.entry =
                           {"isbn13", "authors", "publication_year", "title", "rating_avg"}
               /\ ~(Len(isbn13) = 13 /\ IsDecimalLiteral(isbn13))
                  => req[r].resp.status = 400 /\ req[r].sql = 0

\* A book was found by its isbn13.
C6_Witness ==
    \E r \in DOMAIN req :
        /\ Done(r, "GET /isbn13/:isbn13")
        /\ req[r].resp.status = 200
        /\ req[r].resp.body.entry = Book1

\* C7: on every endpoint a failed database query is caught and answered
\* with 500 (or 400); no request is left without a response.
C7_DatabaseFailureAnswered ==
    \A r \in DOMAIN req :
        req[r].fault => req[r].pc = "done" /\ req[r].resp.status \in {400, 500}

\* C8: GET / with only a valid priority reaches the retrieve-by-priority
\* handler and is answered 200 with the messages of that priority, or 404
\* "No Priority <priority> messages found" when there are none.
C8_GetByPriority ==
    \A r \in DOMAIN req :
        (/\ req[r].route = "GET /"
         /\ req[r].q.authors = Undefined
         /\ req[r].q.publication_year = Undefined
         /\ req[r].q.rating_avg = Undefined
         /\ IsIntLiteral(req[r].q.priority)
         /\ ToNumber(req[r].q.priority).val \in 1..3)
        => /\ req[r].ran[Len(req[r].ran)] = "priority"
           /\ (req[r].pc = "done" /\ ~req[r].fault)
              => LET matching == {x \in demo : x.priority = ToNumber(req[r].q.priority).val}
                 IN  IF matching = {}
                     THEN /\ req[r].resp.status = 404
                          /\ req[r].resp.body.message =
                                <<"No Priority ">> \o req[r].q.priority \o <<" messages found">>
                     ELSE /\ req[r].resp.status = 200
                          /\ Len(req[r].resp.body.entries) = Cardinality(matching)
                          /\ \A x \in matching :
                                \E i \in 1..Len(req[r].resp.body.entries) :
                                    EntryOf(req[r].resp.body.entries[i], x)

\* "{priority} - [name] says: message", as the API documentation has it.
DocumentedEntry(row) ==
    <<"{">> \o NumToString(row.priority) \o <<"} - [">> \o row.name
    \o <<"] says: ">> \o row.message

RowNamed(T, name) == CHOOSE x \in T : x.name = name

\* C9: on the message router a successful create, update and delete-by-name
\* returns the entry "{priority} - [name] says: message" of the affected row
\* (prefixed "Updated: " or "Deleted: " for update and delete).
C9_EntryFormat ==
    [][\A r \in DOMAIN req :
         QueryStep(r)
         => LET name == req[r].q.name
                resp == req'[r].resp
            IN  /\ (req[r].route = "open POST /" /\ resp.status = 201)
                   => resp.body.entry = DocumentedEntry(RowNamed(demo', name))
                /\ (req[r].route = "PUT /" /\ resp.status = 200)
                   => resp.body.entry =
                         <<"Updated: ">> \o DocumentedEntry(RowNamed(demo', name))
                /\ (req[r].route = "open DELETE /:name" /\ resp.status = 200)
                   => resp.body.entry =
                         <<"Deleted: ">> \o DocumentedEntry(RowNamed(demo, name))]_vars

\* C10: PUT / with a non-empty name and message is answered 200 when the
\* name exists and changes only the message of that row; it is answered 404
\* when the name does not exist and the table is unchanged.
C10_UpdateFrame ==
    [][\A r \in DOMAIN req :
         (req[r].route = "PUT /" /\ QueryStep(r) /\ ~req'[r].fault)
         => LET q == req[r].q
                present == {x \in demo : x.name = q.name}
            IN  /\ isStringProvided(q.name) /\ isStringProvided(q.message)
                /\ nextId' = nextId
                /\ IF present # {}
                   THEN /\ req'[r].resp.status = 200
                        /\ Cardinality(demo') = Cardinality(demo)
                        /\ \A x \in demo \ present : x \in demo'
                        /\ \A x \in present :
                              [demoid |-> x.demoid, name |-> x.name,
                               message |-> q.message, priority |-> x.priority] \in demo'
                   ELSE /\ req'[r].resp.status = 404
                        /\ demo' = demo]_vars

\* An update was answered 200 while another row keeps a different message.
C10_Witness ==
    \E r \in DOMAIN req :
        /\ Done(r, "PUT /")
        /\ req[r].resp.status = 200
        /\ \E x, y \in demo :
              x.name = req[r].q.name /\ y.name # x.name /\ y.message # x.message

\* C11: DELETE /?priority=p with an integer p in 1..3 removes all and only
\* the rows of priority p and is answered 200 with exactly the removed rows
\* (one entry each, showing the row); rows of other priorities are unchanged;
\* when no row has priority p it is answered 404 and the table is unchanged.
C11_DeleteByPriority ==
    [][\A r \in DOMAIN req :
         (/\ req[r].route = "DELETE /"
          /\ QueryStep(r)
          /\ ~req'[r].fault
          /\ IsIntLiteral(req[r].q.priority)
          /\ ToNumber(req[r].q.priority).val \in 1..3)
         => LET p == ToNumber(req[r].q.priority).val
                removed == {x \in demo : x.priority = p}
                resp == req'[r].resp
            IN  /\ demo' = demo \ removed
                /\ nextId' = nextId
                /\ IF removed = {}
                   THEN resp.status = 404
                   ELSE /\ resp.status = 200
                        /\ Len(resp.body.entries) = Cardinality(removed)
                        /\ \A x \in removed :
                              \E i \in 1..Len(resp.body.entries) :
                                  ShowsRow("DELETE /", resp.body.entries[i], x)]_vars

PaginationRoutes == {"GET /offset", "GET /cursor"}

Completed(r) == req[r].pc \in {"done", "escaped"}

\* The request was answered 400 by one of its validation checks.
ValidationRejected(r) ==
    /\ req[r].pc = "done"
    /\ req[r].resp.status = 400
    /\ req[r].resp.body.message # <<"Name exists">>

\* C12 as stated: on every endpoint a request that passes validation
\* executes exactly one SQL statement, and a request that validation rejects
\* executes none.
C12_OneStatement ==
    \A r \in DOMAIN req :
        Completed(r) => req[r].sql = IF ValidationRejected(r) THEN 0 ELSE 1

\* C12, amended: a request that validation rejects executes no statement; a
\* request that passes validation executes exactly one statement, once,
\* except on GET /offset and GET /cursor, which execute the page query and,
\* when it succeeded, the count query.
C12_StatementsPerRequest ==
    \A r \in DOMAIN req :
        /\ req[r].pc = "idle" => req[r].sql = 0
        /\ req[r].pc = "query" => req[r].sql = 1
        /\ req[r].pc = "count" => req[r].sql = 2 /\ req[r].route \in PaginationRoutes
        /\ Completed(r)
           => IF ValidationRejected(r) THEN req[r].sql = 0
              ELSE IF req[r].route \in PaginationRoutes
                   THEN IF req[r].fault THEN req[r].sql \in {1, 2} ELSE req[r].sql = 2
                   ELSE req[r].sql = 1

\* A page of GET /offset was answered after two statements.
C12_Witness ==
    \E r \in DOMAIN req :
        Done(r, "GET /offset") /\ req[r].sql = 2 /\ Len(req[r].resp.body.entries) > 0

\* The cursor a GET /cursor request pages from: its cursor parameter when
\* that is a non-negative integer, else 0.
CursorOf(q) == IF ValidPosition(q.cursor) THEN ToNumber(q.cursor).val ELSE 0

\* C13: a GET /cursor request whose page is empty (no row has a surrogate
\* key greater than the cursor) ends in an error while the next cursor is
\* computed: it is not answered 200 with an empty entries list.
C13_EmptyCursorPage ==
    [][\A r \in DOMAIN req :
         req[r].route = "GET /cursor"
         => /\ (req[r].pc = "query" /\ req'[r].pc = "count")
               => (Len(req'[r].rows) = 0
                   <=> ~\E x \in demo : x.demoid > CursorOf(req[r].q))
            /\ (req[r].pc = "count" /\ req'[r].pc # "count" /\ Len(req[r].rows) = 0)
               => /\ req'[r].pc = "escaped"
                  /\ req'[r].resp = NoResponse
                  /\ req'[r].sent = 0]_vars

\* Both statements of a GET /cursor succeeded, the cursor is at the largest
\* key of a non-empty table, and the request ended without a response.
C13_Witness ==
    \E r \in DOMAIN req :
        /\ req[r].route = "GET /cursor"
        /\ req[r].pc = "escaped"
        /\ ~req[r].fault
        /\ req[r].sql = 2
        /\ demo # {}
        /\ \A x \in demo : x.demoid <= CursorOf(req[r].q)

MissingRequired == <<"Missing required information - please refer to documentation">>

\* The body lacks a non-empty name or a non-empty message.
LacksNameOrMessage(q) ==
    q.name \in {Undefined, <<>>} \/ q.message \in {Undefined, <<>>}

\* C14: the checks of a request run in declaration order and stop at the
\* first failure: a POST / without a name or a message is answered once, 400
\* "Missing required information", also when its priority is invalid; its
\* priority check and its insert do not run; and no request is given more
\* than one response.
C14_FirstFailureWins ==
    \A r \in DOMAIN req :
        /\ req[r].sent <= 1
        /\ (req[r].pc = "done" <=> req[r].sent = 1)
        /\ (req[r].route \in PostRoutes /\ LacksNameOrMessage(req[r].q))
           => /\ req[r].pc = "done"
              /\ req[r].resp.status = 400
              /\ req[r].resp.body.message = MissingRequired
              /\ req[r].ran \in {<<"nameMessage">>, <<"mwValidNameMessageBody">>}
              /\ req[r].sql = 0

\* A POST / without a name and with the priority "x" was answered.
C14_Witness ==
    \E r \in DOMAIN req :
        /\ req[r].route \in PostRoutes
        /\ req[r].q.name = Undefined
        /\ InvalidPriority(req[r].q.priority)
        /\ req[r].resp.status = 400
        /\ req[r].sent = 1

\* C15: after any sequence and any interleaving of create, update,
\* delete-by-name and delete-by-priority requests, no two rows of Demo have
\* the same name.
C15_UniqueNames ==
    \A x, y \in demo : x.name = y.name => x = y

\* Both names are stored, after a create of a stored name was answered 400
\* while the other client had a request in flight.
C15_Witness ==
    /\ Cardinality(demo) = 2
    /\ \E r, s \in DOMAIN req :
          /\ r # s
          /\ req[r].route \in PostRoutes
          /\ req[r].resp.status = 400
          /\ req[s].pc = "query"

\* C16: every stored row has an integer priority in 1..3, and it is the
\* validation of the service that guarantees it: every create that reaches
\* the database carries an integer priority in 1..3.
C16_ValidationKeepsPriority ==
    /\ \A x \in demo : x.priority \in 1..3
    /\ \A r \in DOMAIN req :
          (req[r].route \in PostRoutes /\ req[r].sql >= 1)
          => /\ IsIntLiteral(req[r].q.priority)
             /\ ToNumber(req[r].q.priority).val \in 1..3

\* What a request gives when it runs alone on table T with sequence value
\* id: the table and the sequence value after it, and its status code.
SequentialOutcome(T, id, rq) ==
    LET q == rq.q
    IN  IF rq.fault THEN [T |-> T, id |-> id, status |-> 500]
        ELSE IF rq.route \in PostRoutes
        THEN IF ~IsIntLiteral(q.priority) THEN [T |-> T, id |-> id, status |-> 500]
             ELSE IF \E x \in T : x.name = q.name
                  THEN [T |-> T, id |-> id + 1, status |-> 400]
                  ELSE [T |-> T \cup {[demoid |-> id, name |-> q.name,
                                       message |-> q.message,
                                       priority |-> ToNumber(q.priority).val]},
                        id |-> id + 1, status |-> 201]
        ELSE IF rq.route = "PUT /"
        THEN IF \E x \in T : x.name = q.name
             THEN [T |-> {y \in T : y.name # q.name}
                         \cup {[demoid |-> y.demoid, name |-> y.name,
                                message |-> q.message, priority |-> y.priority] :
                               y \in {z \in T : z.name = q.name}},
                   id |-> id, status |-> 200]
             ELSE [T |-> T, id |-> id, status |-> 404]
        ELSE IF rq.route \in DeleteNameRoutes
        THEN IF \E x \in T : x.name = q.name
             THEN [T |-> {y \in T : y.name # q.name}, id |-> id, status |-> 200]
             ELSE [T |-> T, id |-> id, status |-> 404]
        ELSE IF ~IsIntLiteral(q.priority) THEN [T |-> T, id |-> id, status |-> 500]
        ELSE IF \E x \in T : x.priority = ToNumber(q.priority).val
             THEN [T |-> {y \in T : y.priority # ToNumber(q.priority).val},
                   id |-> id, status |-> 200]
             ELSE [T |-> T, id |-> id, status |-> 404]

\* The responses and the table are those of running r's request, then s's.
InOrder(r, s) ==
    LET first == SequentialOutcome(PairTable, PairNextId, req[r])
        second == SequentialOutcome(first.T, first.id, req[s])
    IN  /\ req[r].resp.status = first.status
        /\ req[s].resp.status = second.status
        /\ demo = second.T
        /\ nextId = second.id

\* C17: when two create, update, delete-by-name or delete-by-priority
\* requests are in flight together, the status of every response and the
\* final table are those of one of the two sequential orders of the
\* requests; two creates of one fresh name get one 201 and one 400, and two
\* deletes of one stored name get one 200 and one 404.
C17_SomeSequentialOrder ==
    \A r, s \in DOMAIN req :
        (r # s /\ req[r].pc = "done" /\ req[s].pc = "done")
        => /\ InOrder(r, s) \/ InOrder(s, r)
           /\ (/\ req[r].route \in PostRoutes /\ req[s].route \in PostRoutes
               /\ req[r].q.name = <<"b">> /\ req[s].q.name = <<"b">>
               /\ IsIntLiteral(req[r].q.priority) /\ IsIntLiteral(req[s].q.priority)
               /\ ~req[r].fault /\ ~req[s].fault)
              => {req[r].resp.status, req[s].resp.status} = {201, 400}
           /\ (/\ req[r].route \in DeleteNameRoutes /\ req[s].route \in DeleteNameRoutes
               /\ req[r].q.name = <<"a">> /\ req[s].q.name = <<"a">>
               /\ ~req[r].fault /\ ~req[s].fault)
              => {req[r].resp.status, req[s].resp.status} = {200, 404}

\* Two creates of the fresh name b were answered, one 201 and one 400, and
\* the row stored is the one of the request answered 201.
C17_Witness ==
    \E r, s \in DOMAIN req :
        /\ r # s
        /\ req[r].route = "closed POST /" /\ req[s].route = "closed POST /"
        /\ req[r].q.name = <<"b">> /\ req[s].q.name = <<"b">>
        /\ req[r].q.message # req[s].q.message
        /\ req[r].resp.status = 201 /\ req[s].resp.status = 400
        /\ \E x \in demo : x.name = <<"b">> /\ x.message = req[r].q.message

\* The rows of the starting table that are still stored.
PresentThroughout == {x \in PagerTable : \E y \in demo : y.demoid = x.demoid}

SeenKeys == {pager.seen[i] : i \in 1..Len(pager.seen)}

\* C18: a client paging through GET /cursor from cursor 0 with a fixed
\* limit, while creates and deletes interleave, receives rows in strictly
\* ascending surrogate-key order, so no row twice; and when it meets the
\* first empty page it has received every row that was stored throughout.
C18_CursorTraversal ==
    /\ \A i, j \in 1..Len(pager.seen) : i < j => pager.seen[i] < pager.seen[j]
    /\ pager.cursor # Undefined
       => \A x \in PresentThroughout :
              x.demoid <= ToNumber(pager.cursor).val => x.demoid \in SeenKeys
    /\ EmptyPage(PagingClient)
       => \A x \in PresentThroughout : x.demoid \in SeenKeys

\* The traversal met its first empty page after the second row was deleted
\* and a third one created: it received rows 1 and 3.
C18_Witness ==
    /\ EmptyPage(PagingClient)
    /\ pager.seen = <<1, 3>>
    /\ \E x \in demo : x.demoid = 1

\* The limit and the offset GET /offset is documented to use.
DocumentedLimit(raw) == IF ValidLimit(raw) THEN ToNumber(raw).val ELSE 10
DocumentedOffset(raw) == IF ValidPosition(raw) THEN ToNumber(raw).val ELSE 0

\* The entries a client collects that calls GET /offset on table T with a
\* fixed limit, from offset on, taking each next offset from nextPage, up to
\* the first empty page.
RECURSIVE FollowNextPage(_, _, _)
FollowNextPage(T, limit, offset) ==
    LET rows == OffsetQuery(T, limit, offset)
        resp == OffsetResponse(rows, CountQuery(T), limit, offset)
    IN  IF Len(rows) = 0 THEN <<>>
        ELSE resp.body.entries
             \o FollowNextPage(T, limit, resp.body.pagination.nextPage)

\* C19: GET /offset reports nextPage = limit + offset of the effective limit
\* (default 10) and offset (default 0), not capped by totalRecords; an offset
\* at or beyond totalRecords is answered 200 with no entries; and with a
\* fixed limit and no writes, following nextPage from offset 0 lists every
\* message exactly once, in consecutive slices.
C19_NextPage ==
    /\ \A r \in DOMAIN req :
          Done(r, "GET /offset")
          => LET limit == DocumentedLimit(req[r].q.limit)
                 offset == DocumentedOffset(req[r].q.offset)
                 body == req[r].resp.body
             IN  /\ req[r].resp.status = 200
                 /\ body.pagination.limit = limit
                 /\ body.pagination.offset = offset
                 /\ body.pagination.nextPage = limit + offset
                 /\ body.pagination.totalRecords = Cardinality(demo)
                 /\ offset >= Cardinality(demo) => body.entries = <<>>
    /\ \A limit \in 1..MaxId :
          LET listed == FollowNextPage(demo, limit, 0)
          IN  /\ Len(listed) = Cardinality(demo)
              /\ \A x \in demo : EntryOf(listed[Position(x)], x)

\* An offset beyond the last row was answered 200 with no entries and a
\* nextPage above totalRecords.
C19_Witness ==
    \E r \in DOMAIN req :
        /\ Done(r, "GET /offset")
        /\ demo # {}
        /\ req[r].resp.body.entries = <<>>
        /\ req[r].resp.body.pagination.offset >= Cardinality(demo)
        /\ req[r].resp.body.pagination.nextPage > req[r].resp.body.pagination.totalRecords

FilterParams == {"authors", "publication_year", "rating_avg"}

\* The layers message.ts registers on GET / for a filter parameter.
LayersOf(param) ==
    IF param = "rating_avg" THEN {"mwValidRatingAverageQuery", "rating_avg"} ELSE {param}

\* The value fails the validation of its parameter.
FailsValidation(param, value) ==
    CASE param = "authors" -> value = <<>>
      [] param = "publication_year" -> ~(IsDecimalLiteral(value) /\ Len(value) = 4)
      [] param = "rating_avg" -> ~IsDecimalLiteral(value)

\* C20: a GET / request carrying exactly one of authors, publication_year,
\* rating_avg is answered by the layers of that parameter alone, with one
\* response: 400 and no query when the value fails that parameter's
\* validation, else one query and 200 or 404 (500 when the query fails).
C20_OneFilterHandler ==
    \A r \in DOMAIN req :
        (/\ req[r].route = "GET /"
         /\ Cardinality({p \in FilterParams : req[r].q[p] # Undefined}) = 1)
        => LET param == CHOOSE p \in FilterParams : req[r].q[p] # Undefined
               value == req[r].q[param]
           IN  /\ req[r].ran[Len(req[r].ran)] \in LayersOf(param)
               /\ req[r].sql = IF FailsValidation(param, value) THEN 0 ELSE 1
               /\ req[r].pc = "done"
                  => /\ req[r].sent = 1
                     /\ IF FailsValidation(param, value) THEN req[r].resp.status = 400
                        ELSE IF req[r].fault THEN req[r].resp.status = 500
                        ELSE req[r].resp.status \in {200, 404}

====
